---- MODULE Spec2Model ----
(***************************************************************************)
(* filmlook (src/src/App.tsx): the applyFilmLook pixel pipeline and the    *)
(* App component's debounced processing and press-and-hold preview.        *)
(*                                                                         *)
(* Numbers in [0,1] (the Float32Array buffers R, G, B, lum and the         *)
(* double intermediates) are fixed-point integers in units of 1/One;       *)
(* 8-bit channels are integers 0..255.  Buffers are sequences indexed from *)
(* 1, so px[i*4 + c] of the source is data[4*i + c + 1] here.              *)
(***************************************************************************)
EXTENDS Integers, Sequences, FiniteSets, TLC

\* 1.0 in fixed point.
One == 10000

\* Bounds of the model.
MaxPixels == 4
MaxRadius == 1
MaxTimers == 4
MaxFiles == 2
MaxSlider == 1

VARIABLES
    pc,       \* position inside applyFilmLook
    img,      \* imgData, w, h: [w, h, data]
    params,   \* FilmLookParams
    R, G, B,  \* graded channels (Float32Array)
    lum,      \* luminance buffer (Float32Array)
    mask,     \* glow mask (Uint8ClampedArray)
    glow,     \* result of blur(mask, ...)
    noise,    \* per pixel: the noise sample drawn at line 119
    base,     \* per pixel: <<rr, gg, bb>> after lines 116-118
    pre,      \* per pixel: the arguments of clamp at lines 121-123
    out,      \* buffer after combine + grain (Uint8ClampedArray)
    soft,     \* result of blurSeparate(out, ...)
    result,   \* the returned ImageData: [data, width, height]
    \* The App component (lines 156-241)
    uiParams,   \* useState params
    origData,   \* useState origData (NoImage: null)
    procData,   \* useState procData (NoImage: null)
    dim,        \* useState dim (NoImage: null)
    debounce,   \* debounce.current (0: undefined)
    timers,     \* pending window.setTimeout callbacks with what they captured
    nextTimer,  \* the id the next setTimeout returns
    hasCleanup, \* the last run of the processing effect returned its cleanup
    pending,    \* effects whose dependencies changed and that have not run yet
    listeners,  \* the canvas listeners' closure: [orig, proc], or NoImage
    canvas,     \* what the canvas shows
    decoding,   \* onFile calls waiting in createImageBitmap
    held,       \* the pointer that is down on the canvas
    pressShown, \* the press in progress ran showOrig
    staleRun    \* applyFilmLook was started with superseded values

pipeVars == <<pc, img, params, R, G, B, lum, mask, glow, noise, base, pre, out,
              soft, result>>
appVars == <<uiParams, origData, procData, dim, debounce, timers, nextTimer,
             hasCleanup, pending, listeners, canvas, decoding, held,
             pressShown, staleRun>>
vars == <<pipeVars, appVars>>

----------------------------------------------------------------------------
(* Arithmetic helpers *)

Min(a, b) == IF a < b THEN a ELSE b
Max(a, b) == IF a > b THEN a ELSE b

\* a / b rounded to the nearest unit (b > 0): one floating point operation
\* whose result is kept to the model's resolution.
RDiv(a, b) == (2 * a + b) \div (2 * b)

RECURSIVE SumOver(_, _)
SumOver(f, S) ==
    IF S = {} THEN 0
    ELSE LET x == CHOOSE y \in S : TRUE IN f[x] + SumOver(f, S \ {x})

\* clamp (lines 27-29): Math.min(Math.max(v, 0), 1)
clamp(v) == Min(Max(v, 0), One)

\* Storing the number n/d (d > 0) into a Uint8ClampedArray: clamp to
\* [0,255], round to nearest, ties to even.
ToUint8Clamped(n, d) ==
    IF n <= 0 THEN 0
    ELSE IF n >= 255 * d THEN 255
    ELSE LET q == n \div d
             r == n % d
         IN  IF 2 * r < d THEN q
             ELSE IF 2 * r > d THEN q + 1
             ELSE IF q % 2 = 0 THEN q ELSE q + 1

----------------------------------------------------------------------------
(* Inputs *)

\* 8-bit channel values the input images are built from.
Black == <<0, 0, 0>>
Gray == <<128, 128, 128>>
White == <<255, 255, 255>>
Colours == {Black, Gray, White}
\* <<a, b>> with a darker than b.
ColourPairs == {<<Black, White>>, <<Gray, White>>}

Heights == {1, 2}
Dims == {d \in (1..MaxPixels) \X Heights : d[1] * d[2] <= MaxPixels}

\* An image whose first k pixels have colour a and the others colour b
\* (k = w*h: a flat image), alpha 255.  Images holds the flat images and
\* the images with one edge, dark side first.
EdgeImage(w, h, a, b, k) ==
    [w |-> w, h |-> h,
     data |-> [j \in 1..(4 * w * h) |->
                 LET i == (j - 1) \div 4
                     c == (j - 1) % 4
                 IN  IF c = 3 THEN 255
                     ELSE IF i < k THEN a[c + 1] ELSE b[c + 1]]]

Images ==
    {EdgeImage(d[1], d[2], a, a, d[1] * d[2]) : d \in Dims, a \in Colours}
    \cup
    UNION {{EdgeImage(d[1], d[2], ab[1], ab[2], k) : k \in 1..(d[1] * d[2] - 1)}
             : d \in Dims, ab \in ColourPairs}

ToneAs == {5, 10}
\* 5025 is the luminance of a Gray pixel at toneA = 5.
GlowThresholds == {5025, One}
GlowStrengths == {0, 4000}
GrainStrengths == {0, 1000}
SoftFocusStrengths == {0, 3000}
Radii == {0, MaxRadius}

ParamSets ==
    [toneA : ToneAs, glowThreshold : GlowThresholds,
     glowStrength : GlowStrengths, glowBlur : Radii,
     grainStrength : GrainStrengths, softFocusStrength : SoftFocusStrengths,
     softFocusRadius : Radii]

\* Values of Math.random() (in [0,1)) the model draws.
RandSamples == {0, One - 1}

----------------------------------------------------------------------------
(* Tone map & grade (lines 88-103) *)

\* 1 / (1 + Math.exp(-a * (c/255 - 0.5))), to 1/One, for the toneA and
\* channel values the model draws.
Logistic(a, c) ==
    CASE a = 5  /\ c = 0   -> 759
      [] a = 5  /\ c = 128 -> 5025
      [] a = 5  /\ c = 255 -> 9241
      [] a = 10 /\ c = 0   -> 67
      [] a = 10 /\ c = 128 -> 5049
      [] a = 10 /\ c = 255 -> 9933

\* One iteration of the loop: [l, r, g, b] of pixel i (0-based).
ToneGrade(data, i, toneA) ==
    LET tc_r == Logistic(toneA, data[4 * i + 1])
        tc_g == Logistic(toneA, data[4 * i + 2])
        tc_b == Logistic(toneA, data[4 * i + 3])
        l == RDiv(2126 * tc_r + 7152 * tc_g + 722 * tc_b, 10000)
        shadowM == clamp((One \div 2 - l) * 2)
        highlightM == clamp((l - One \div 2) * 2)
    IN  [l |-> l,
         r |-> clamp(tc_r + RDiv(shadowM * (-500) + highlightM * 800, 10000)),
         g |-> clamp(tc_g + RDiv(highlightM * 400, 10000)),
         b |-> clamp(tc_b + RDiv(shadowM * 500 + highlightM * (-200), 10000))]

----------------------------------------------------------------------------
(* Glow mask (lines 105-110) *)

\* Mutants of Lit: >= for >, and the comparison inverted.
LitOrEqual(l, threshold) == l >= threshold
LitBelow(l, threshold) == l < threshold

\* lum[i] > params.glowThreshold
Lit(l, threshold) == l > threshold

BuildMask(lumbuf, threshold, len) ==
    [j \in 1..(4 * len) |->
        IF (j - 1) % 4 = 3 THEN 255
        ELSE IF Lit(lumbuf[(j - 1) \div 4 + 1], threshold) THEN 255 ELSE 0]

----------------------------------------------------------------------------
(* The 2D canvas: an 8-bit premultiplied RGBA surface.  ctx.filter =       *)
(* blur(r px) blurs the drawn source with transparent black outside it;    *)
(* the Gaussian is the binomial kernel of half-width r.                    *)

RECURSIVE Binom(_, _)
Binom(n, k) ==
    IF k = 0 \/ k = n THEN 1 ELSE Binom(n - 1, k - 1) + Binom(n - 1, k)

Kernel(r, d) == Binom(2 * r, r + d)

RECURSIVE Pow4(_)
Pow4(r) == IF r = 0 THEN 1 ELSE 4 * Pow4(r - 1)

\* putImageData: the surface keeps colour * alpha / 255.
Premultiply(data) ==
    [j \in 1..Len(data) |->
        IF (j - 1) % 4 = 3 THEN data[j]
        ELSE RDiv(data[j] * data[j - ((j - 1) % 4) + 3], 255)]

\* getImageData: colour * 255 / alpha, transparent pixels read as 0.
Unpremultiply(surf) ==
    [j \in 1..Len(surf) |->
        LET a == surf[j - ((j - 1) % 4) + 3]
        IN  IF (j - 1) % 4 = 3 THEN a
            ELSE IF a = 0 THEN 0
            ELSE Min(255, RDiv(surf[j] * 255, a))]

\* The source surface drawn through filter blur(r px): each channel of
\* each pixel is the kernel-weighted sum of the in-bounds neighbours.
FilterBlur(surf, w, h, r) ==
    [j \in 1..Len(surf) |->
        LET i == (j - 1) \div 4
            c == (j - 1) % 4
            x == i % w
            y == i \div w
            nb == {d \in (-r..r) \X (-r..r) :
                     /\ x + d[1] >= 0 /\ x + d[1] < w
                     /\ y + d[2] >= 0 /\ y + d[2] < h}
            term == [d \in nb |->
                       Kernel(r, d[1]) * Kernel(r, d[2])
                         * surf[4 * ((y + d[2]) * w + (x + d[1])) + c + 1]]
        IN  RDiv(SumOver(term, nb), Pow4(r) * Pow4(r))]

\* blur (lines 32-48): the canvas is drawn onto itself, source-over.
blur(data, w, h, r) ==
    LET surf == Premultiply(data)
        f == FilterBlur(surf, w, h, r)
        drawn == [j \in 1..Len(surf) |->
                    LET fa == f[j - ((j - 1) % 4) + 3]
                    IN  Min(255, f[j] + RDiv(surf[j] * (255 - fa), 255))]
    IN  Unpremultiply(drawn)

\* blurSeparate (lines 51-72): the source canvas is drawn onto a fresh,
\* transparent destination canvas.
blurSeparate(data, w, h, r) ==
    Unpremultiply(FilterBlur(Premultiply(data), w, h, r))

----------------------------------------------------------------------------
(* Combine + grain (lines 113-125) *)

\* n/d rounded to nearest, ties to even, not clamped: a store into an
\* array that is not a Uint8ClampedArray.
StoreUnclamped(n, d) ==
    LET q == n \div d
        r == n % d
    IN  IF 2 * r < d THEN q
        ELSE IF 2 * r > d THEN q + 1
        ELSE IF q % 2 = 0 THEN q ELSE q + 1

\* Mutant of CombinePixel: no clamp, and out is not a clamped array.
CombinePixelUnclamped(r, g, b, l, glowPx, prm, u) ==
    LET rr == r + RDiv(glowPx[1] * prm.glowStrength, 255)
        gg == g + RDiv(glowPx[2] * prm.glowStrength, 255)
        bb == b + RDiv(glowPx[3] * prm.glowStrength, 255)
        n == RDiv((u * 2 - One) * prm.grainStrength, One)
        wt == 7000 + RDiv(3000 * l, One)
        d == RDiv(n * wt, One)
    IN  [noise |-> n,
         base |-> <<rr, gg, bb>>,
         pre |-> <<rr + d, gg + d, bb + d>>,
         px |-> <<StoreUnclamped((rr + d) * 255, One),
                  StoreUnclamped((gg + d) * 255, One),
                  StoreUnclamped((bb + d) * 255, One),
                  255>>]

\* Mutant of CombinePixel: a second, independent sample for the green
\* channel (here the opposite one).
CombinePixelChroma(r, g, b, l, glowPx, prm, u) ==
    LET rr == r + RDiv(glowPx[1] * prm.glowStrength, 255)
        gg == g + RDiv(glowPx[2] * prm.glowStrength, 255)
        bb == b + RDiv(glowPx[3] * prm.glowStrength, 255)
        n == RDiv((u * 2 - One) * prm.grainStrength, One)
        wt == 7000 + RDiv(3000 * l, One)
        d == RDiv(n * wt, One)
    IN  [noise |-> n,
         base |-> <<rr, gg, bb>>,
         pre |-> <<rr + d, gg - d, bb + d>>,
         px |-> <<ToUint8Clamped(clamp(rr + d) * 255, One),
                  ToUint8Clamped(clamp(gg - d) * 255, One),
                  ToUint8Clamped(clamp(bb + d) * 255, One),
                  255>>]

\* One iteration: glowPx is <<glow[i*4], glow[i*4+1], glow[i*4+2]>>, u the
\* value of Math.random().
CombinePixel(r, g, b, l, glowPx, prm, u) ==
    LET rr == r + RDiv(glowPx[1] * prm.glowStrength, 255)
        gg == g + RDiv(glowPx[2] * prm.glowStrength, 255)
        bb == b + RDiv(glowPx[3] * prm.glowStrength, 255)
        n == RDiv((u * 2 - One) * prm.grainStrength, One)
        wt == 7000 + RDiv(3000 * l, One)
        d == RDiv(n * wt, One)
    IN  [noise |-> n,
         base |-> <<rr, gg, bb>>,
         pre |-> <<rr + d, gg + d, bb + d>>,
         px |-> <<ToUint8Clamped(clamp(rr + d) * 255, One),
                  ToUint8Clamped(clamp(gg + d) * 255, One),
                  ToUint8Clamped(clamp(bb + d) * 255, One),
                  255>>]

----------------------------------------------------------------------------
(* Soft focus blend (lines 129-150) *)

\* Mutant of Blend: the two weights exchanged.
BlendSwapped(o, s1, strength) ==
    ToUint8Clamped(o * strength + s1 * (One - strength), One)

\* (r0 * (1 - s) + r1 * s) * 255 with r0 = o/255, r1 = s1/255, stored into
\* the Uint8ClampedArray final.
Blend(o, s1, strength) ==
    ToUint8Clamped(o * (One - strength) + s1 * strength, One)

\* Mutant of FinalBuffer: three values per pixel, the alpha left out.
FinalBufferRGB(outbuf, softbuf, strength, len) ==
    [j \in 1..(3 * len) |->
        Blend(outbuf[j + (j - 1) \div 3], softbuf[j + (j - 1) \div 3],
              strength)]

FinalBuffer(outbuf, softbuf, strength, len) ==
    [j \in 1..(4 * len) |->
        IF (j - 1) % 4 = 3 THEN 255
        ELSE Blend(outbuf[j], softbuf[j], strength)]

----------------------------------------------------------------------------
(* applyFilmLook (lines 75-153) as a state machine *)

NumPixels == img.w * img.h
Pixels == 0..(NumPixels - 1)
None == <<>>

NoImage == [kind |-> "none"]

\* The component just mounted (lines 157-163): no image, default params.
AppMounted ==
    /\ uiParams = 0
    /\ origData = NoImage /\ procData = NoImage /\ dim = NoImage
    /\ debounce = 0 /\ timers = {} /\ nextTimer = 1
    /\ hasCleanup = FALSE /\ pending = {}
    /\ listeners = NoImage
    /\ canvas = [kind |-> "blank"]
    /\ decoding = {}
    /\ held = "none" /\ pressShown = FALSE /\ staleRun = FALSE

Init ==
    /\ AppMounted
    /\ pc = "tone"
    /\ img \in Images
    /\ params \in ParamSets
    /\ R = None /\ G = None /\ B = None /\ lum = None
    /\ mask = None /\ glow = None
    /\ noise = None /\ base = None /\ pre = None
    /\ out = None /\ soft = None
    /\ result = [data |-> None, width |-> 0, height |-> 0]

ToneMapAndGrade ==
    /\ pc = "tone"
    /\ LET t == [i \in Pixels |-> ToneGrade(img.data, i, params.toneA)]
       IN  /\ R' = [k \in 1..NumPixels |-> t[k - 1].r]
           /\ G' = [k \in 1..NumPixels |-> t[k - 1].g]
           /\ B' = [k \in 1..NumPixels |-> t[k - 1].b]
           /\ lum' = [k \in 1..NumPixels |-> t[k - 1].l]
    /\ pc' = "mask"
    /\ UNCHANGED appVars
    /\ UNCHANGED <<img, params, mask, glow, noise, base, pre, out, soft, result>>

GlowMask ==
    /\ pc = "mask"
    /\ mask' = BuildMask(lum, params.glowThreshold, NumPixels)
    /\ pc' = "blurGlow"
    /\ UNCHANGED appVars
    /\ UNCHANGED <<img, params, R, G, B, lum, glow, noise, base, pre, out,
                   soft, result>>

GlowBlur ==
    /\ pc = "blurGlow"
    /\ glow' = blur(mask, img.w, img.h, params.glowBlur)
    /\ pc' = "combine"
    /\ UNCHANGED appVars
    /\ UNCHANGED <<img, params, R, G, B, lum, mask, noise, base, pre, out,
                   soft, result>>

CombineAndGrain ==
    /\ pc = "combine"
    /\ \E u \in [1..NumPixels -> RandSamples] :
         LET cp == [k \in 1..NumPixels |->
                      CombinePixel(R[k], G[k], B[k], lum[k],
                                   <<glow[4 * k - 3], glow[4 * k - 2],
                                     glow[4 * k - 1]>>,
                                   params, u[k])]
         IN  /\ noise' = [k \in 1..NumPixels |-> cp[k].noise]
             /\ base' = [k \in 1..NumPixels |-> cp[k].base]
             /\ pre' = [k \in 1..NumPixels |-> cp[k].pre]
             /\ out' = [j \in 1..(4 * NumPixels) |->
                          LET p == cp[(j - 1) \div 4 + 1].px IN p[((j - 1) % 4) + 1]]
    /\ pc' = "blurSoft"
    /\ UNCHANGED appVars
    /\ UNCHANGED <<img, params, R, G, B, lum, mask, glow, soft, result>>

SoftBlur ==
    /\ pc = "blurSoft"
    /\ soft' = blurSeparate(out, img.w, img.h, params.softFocusRadius)
    /\ pc' = "blend"
    /\ UNCHANGED appVars
    /\ UNCHANGED <<img, params, R, G, B, lum, mask, glow, noise, base, pre,
                   out, result>>

SoftFocusBlend ==
    /\ pc = "blend"
    /\ result' = [data |-> FinalBuffer(out, soft, params.softFocusStrength,
                                       NumPixels),
                  width |-> img.w, height |-> img.h]
    /\ pc' = "done"
    /\ UNCHANGED appVars
    /\ UNCHANGED <<img, params, R, G, B, lum, mask, glow, noise, base, pre,
                   out, soft>>

Next ==
    \/ ToneMapAndGrade
    \/ GlowMask
    \/ GlowBlur
    \/ CombineAndGrain
    \/ SoftBlur
    \/ SoftFocusBlend

Spec == Init /\ [][Next]_vars

----------------------------------------------------------------------------
(* The App component (lines 156-241): state, the two effects, the file     *)
(* handler, the sliders and the canvas listeners.  applyFilmLook is the    *)
(* record of its arguments here.  An effect runs after the render that     *)
(* follows a state change; a state change made in an async continuation    *)
(* (onFile after its await, the timer callback after its await) leaves its *)
(* effects pending until React runs them, and a timer may fire before.  A  *)
(* slider change is a discrete event: its render and effects are           *)
(* synchronous.                                                            *)

Files == 1..MaxFiles
SliderValues == 0..MaxSlider
Pointers == {"mouse", "touch"}

\* offCtx.getImageData(0, 0, w, h) for file f, and its { w, h }.
Orig(f) == [kind |-> "orig", file |-> f]
DimOf(f) == [w |-> f, h |-> 1]

\* await applyFilmLook(origData, dim.w, dim.h, params) (line 170)
Processed(o, d, p) ==
    [kind |-> "proc", file |-> o.file, w |-> d.w, h |-> d.h, params |-> p]

\* The debounced processing effect (lines 166-188) run with the state
\* (o, d, p): the cleanup of its last run, then its body.
ProcessingEffect(o, d, p) ==
    LET cleaned == IF hasCleanup /\ debounce # 0
                   THEN {t \in timers : t.id # debounce} ELSE timers
    IN  IF o = NoImage \/ d = NoImage
        THEN /\ timers' = cleaned
             /\ hasCleanup' = FALSE
             /\ UNCHANGED <<debounce, nextTimer>>
        ELSE /\ timers' = {t \in cleaned : t.id # debounce}
                            \cup {[id |-> nextTimer, origData |-> o,
                                   dim |-> d, params |-> p]}
             /\ debounce' = nextTimer
             /\ nextTimer' = nextTimer + 1
             /\ hasCleanup' = TRUE

\* The preview toggle effect (lines 191-208) run with the state (o, pr).
ToggleEffect(o, pr) ==
    listeners' = IF o = NoImage \/ pr = NoImage THEN NoImage
                 ELSE [kind |-> "listeners", orig |-> o, proc |-> pr]

\* The effects in `run`, with the state (o, d, p, pr) of the render.
RunEffectsWith(run, o, d, p, pr) ==
    /\ IF "process" \in run THEN ProcessingEffect(o, d, p)
       ELSE UNCHANGED <<timers, debounce, nextTimer, hasCleanup>>
    /\ IF "toggle" \in run THEN ToggleEffect(o, pr)
       ELSE UNCHANGED listeners

PipelineIdle ==
    /\ pc = "idle"
    /\ img = [w |-> 0, h |-> 0, data |-> None]
    /\ params = [toneA |-> 5, glowThreshold |-> 7000, glowStrength |-> 4000,
                 glowBlur |-> 40, grainStrength |-> 200,
                 softFocusStrength |-> 3000, softFocusRadius |-> 10]
    /\ R = None /\ G = None /\ B = None /\ lum = None
    /\ mask = None /\ glow = None
    /\ noise = None /\ base = None /\ pre = None
    /\ out = None /\ soft = None
    /\ result = [data |-> None, width |-> 0, height |-> 0]

InitApp == AppMounted /\ PipelineIdle

\* onChange of a slider (lines 328-333): setParams, the render, the effects.
SliderChange(v) ==
    /\ v # uiParams
    /\ nextTimer <= MaxTimers
    /\ uiParams' = v
    /\ RunEffectsWith(pending \cup {"process"}, origData, dim, v, procData)
    /\ pending' = {}
    /\ UNCHANGED <<origData, procData, dim, canvas, decoding, held,
                   pressShown, staleRun>>
    /\ UNCHANGED pipeVars

\* onFile up to its await (lines 211-214).
FileSelect(f) ==
    /\ f \notin decoding
    /\ decoding' = decoding \cup {f}
    /\ UNCHANGED <<uiParams, origData, procData, dim, debounce, timers,
                   nextTimer, hasCleanup, pending, listeners, canvas, held,
                   pressShown, staleRun>>
    /\ UNCHANGED pipeVars

\* onFile after its await (lines 215-240): the canvas is resized and shows
\* the image, setOrigData and setDim.
FileDecoded(f) ==
    /\ f \in decoding
    /\ decoding' = decoding \ {f}
    /\ canvas' = Orig(f)
    /\ origData' = Orig(f)
    /\ dim' = DimOf(f)
    /\ pending' = pending \cup {"process", "toggle"}
    /\ UNCHANGED <<uiParams, procData, debounce, timers, nextTimer,
                   hasCleanup, listeners, held, pressShown, staleRun>>
    /\ UNCHANGED pipeVars

\* React runs the pending effects.
RunEffects ==
    /\ pending # {}
    /\ "process" \in pending => nextTimer <= MaxTimers
    /\ RunEffectsWith(pending, origData, dim, uiParams, procData)
    /\ pending' = {}
    /\ UNCHANGED <<uiParams, origData, procData, dim, canvas, decoding, held,
                   pressShown, staleRun>>
    /\ UNCHANGED pipeVars

\* The timer callback (lines 169-184): applyFilmLook on what the closure
\* captured, setProcData, putImageData.
TimerFire(t) ==
    /\ t \in timers
    /\ timers' = timers \ {t}
    /\ procData' = Processed(t.origData, t.dim, t.params)
    /\ canvas' = procData'
    /\ pending' = pending \cup {"toggle"}
    /\ staleRun' = (staleRun \/ t.origData # origData \/ t.dim # dim
                      \/ t.params # uiParams)
    /\ UNCHANGED <<uiParams, origData, dim, debounce, nextTimer, hasCleanup,
                   listeners, decoding, held, pressShown>>
    /\ UNCHANGED pipeVars

\* mousedown / touchstart on the canvas: showOrig, if registered.
PointerDown(k) ==
    /\ held = "none"
    /\ held' = k
    /\ IF listeners # NoImage
       THEN canvas' = listeners.orig /\ pressShown' = TRUE
       ELSE UNCHANGED canvas /\ pressShown' = FALSE
    /\ UNCHANGED <<uiParams, origData, procData, dim, debounce, timers,
                   nextTimer, hasCleanup, pending, listeners, decoding,
                   staleRun>>
    /\ UNCHANGED pipeVars

\* mouseup / touchend on the canvas: showProc, if registered.
PointerUp ==
    /\ held # "none"
    /\ held' = "none"
    /\ pressShown' = FALSE
    /\ IF listeners # NoImage
       THEN canvas' = listeners.proc
       ELSE UNCHANGED canvas
    /\ UNCHANGED <<uiParams, origData, procData, dim, debounce, timers,
                   nextTimer, hasCleanup, pending, listeners, decoding,
                   staleRun>>
    /\ UNCHANGED pipeVars

NextApp ==
    \/ \E v \in SliderValues : SliderChange(v)
    \/ \E f \in Files : FileSelect(f)
    \/ \E f \in Files : FileDecoded(f)
    \/ RunEffects
    \/ \E t \in timers : TimerFire(t)
    \/ \E k \in Pointers : PointerDown(k)
    \/ PointerUp

SpecApp == InitApp /\ [][NextApp]_vars

----------------------------------------------------------------------------
(* Properties of the App component *)

\* C9: Press-and-hold preview: from the mousedown or touchstart that showed
\* the original until the matching mouseup or touchend, the canvas displays
\* the original image, whatever else happens meanwhile.
C9_HeldShowsOriginal ==
    (held # "none" /\ pressShown) => canvas.kind = "orig"

\* C10: Debounced processing: at most one processing timer is pending,
\* applyFilmLook is never started with superseded values, and with no timer
\* and no effect pending procData is the image computed from the latest
\* params and the latest image with its own dimensions.
C10_Debounce ==
    /\ Cardinality(timers) <= 1
    /\ ~staleRun
    /\ (timers = {} /\ pending = {} /\ origData # NoImage)
         => procData = Processed(origData, DimOf(origData.file), uiParams)


----------------------------------------------------------------------------
(* Properties of applyFilmLook *)

AfterTone == pc # "tone"
AfterMask == pc \notin {"tone", "mask"}
AfterGlow == pc \notin {"tone", "mask", "blurGlow"}
AfterCombine == pc \in {"blurSoft", "blend", "done"}
Done == pc = "done"

PixelIdx == 1..NumPixels
Channels == 1..3
\* Index of channel c (1..4) of pixel k (1-based) in an RGBA buffer.
At(k, c) == 4 * (k - 1) + c

\* The 8-bit value of a graded channel value v: v * 255 stored into a
\* Uint8ClampedArray.
Quantize(v) == ToUint8Clamped(v * 255, One)

Graded(k) == <<R[k], G[k], B[k]>>

\* C1: Dimension preservation: the returned image has width w, height h
\* and exactly w*h*4 channel values, as have the two blurred buffers.
C1_DimensionPreserved ==
    /\ AfterGlow => Len(glow) = 4 * img.w * img.h
    /\ pc \in {"blend", "done"} => Len(soft) = 4 * img.w * img.h
    /\ Done => /\ result.width = img.w
               /\ result.height = img.h
               /\ Len(result.data) = img.w * img.h * 4

C1_Witness ==
    /\ Done
    /\ img.w = 2 /\ img.h = 2
    /\ Len(result.data) = 16
    /\ params.glowBlur > 0 /\ params.softFocusRadius > 0

\* C2: Channel clamp invariant: every value of the buffer written after
\* glow and grain and of the returned image is an integer in [0,255]; a
\* channel whose value before the store is above 1 is stored as 255 and one
\* below 0 as 0 (nothing wraps around).
C2_ChannelsInRange ==
    /\ AfterCombine =>
         /\ \A j \in 1..Len(out) : out[j] \in 0..255
         /\ \A k \in PixelIdx : \A c \in Channels :
              /\ pre[k][c] >= One => out[At(k, c)] = 255
              /\ pre[k][c] <= 0 => out[At(k, c)] = 0
    /\ Done => \A j \in 1..Len(result.data) : result.data[j] \in 0..255

C2_Witness ==
    /\ Done
    /\ \E k \in PixelIdx : pre[k][1] > One /\ out[At(k, 1)] = 255
    /\ \E k \in PixelIdx : pre[k][1] < 0 /\ out[At(k, 1)] = 0
    /\ params.softFocusStrength > 0 /\ params.softFocusRadius > 0

\* C3: Identity-ish bounds: with glowStrength = 0, grainStrength = 0 and
\* softFocusStrength = 0 the returned image is the tone-graded image (each
\* graded R, G, B value as an 8-bit channel), whatever toneA, glowThreshold,
\* glowBlur and softFocusRadius are.
C3_IdentityWhenStrengthsZero ==
    (/\ Done
     /\ params.glowStrength = 0
     /\ params.grainStrength = 0
     /\ params.softFocusStrength = 0)
    => \A k \in PixelIdx :
         /\ \A c \in Channels : result.data[At(k, c)] = Quantize(Graded(k)[c])
         /\ result.data[At(k, 4)] = 255

C3_Witness ==
    /\ Done
    /\ params.glowStrength = 0
    /\ params.grainStrength = 0
    /\ params.softFocusStrength = 0
    /\ params.glowBlur > 0 /\ params.softFocusRadius > 0
    /\ \E k \in PixelIdx : mask[At(k, 1)] = 255
    /\ \E k \in PixelIdx : soft[At(k, 1)] # out[At(k, 1)]
    /\ \A k \in PixelIdx : result.data[At(k, 1)] = Quantize(R[k])

\* C4: Mask threshold boundary: the mask value of a pixel is 255 exactly
\* when its luminance is greater than glowThreshold and 0 otherwise (so 0
\* when the two are equal), and the mask's alpha is 255 for every pixel.
C4_MaskThreshold ==
    AfterMask =>
      \A k \in PixelIdx :
        /\ \A c \in Channels :
             mask[At(k, c)] = IF lum[k] > params.glowThreshold THEN 255 ELSE 0
        /\ lum[k] = params.glowThreshold => mask[At(k, 1)] = 0
        /\ mask[At(k, 4)] = 255

C4_Witness ==
    /\ AfterMask
    /\ \E k \in PixelIdx : lum[k] = params.glowThreshold /\ mask[At(k, 1)] = 0
    /\ \E k \in PixelIdx : lum[k] > params.glowThreshold /\ mask[At(k, 1)] = 255

\* Thresholds in [0,1] the monotonicity is checked for.
MonoThresholds == {0, 759, 5025, 5049, One}
\* The pixels whose mask value is 255 when the mask is built with t.
LitSet(lumbuf, t) ==
    LET m == BuildMask(lumbuf, t, Len(lumbuf))
    IN  {k \in 1..Len(lumbuf) : m[At(k, 1)] = 255}

\* C5: Glow monotonicity: for the luminance buffer the tone loop has just
\* written (it is not written again) and any two thresholds t1 <= t2, the
\* pixels lit with t2 are among those lit with t1, so their number is not
\* greater.
C5_GlowMonotone ==
    pc = "mask" =>
      LET lit == [t \in MonoThresholds |-> LitSet(lum, t)]
      IN  \A t1 \in MonoThresholds : \A t2 \in MonoThresholds :
            t1 <= t2 =>
              /\ lit[t2] \subseteq lit[t1]
              /\ Cardinality(lit[t2]) <= Cardinality(lit[t1])

C5_Witness ==
    /\ pc = "blurGlow"
    /\ \E t1 \in MonoThresholds :
         /\ t1 < params.glowThreshold
         /\ Cardinality(LitSet(lum, params.glowThreshold))
              < Cardinality(LitSet(lum, t1))
    /\ LitSet(lum, params.glowThreshold) # {}
    /\ LitSet(lum, params.glowThreshold)
         = {k \in PixelIdx : mask[At(k, 1)] = 255}

\* 0.7 + 0.3 * lum[i]
GrainWeight(k) == 7000 + RDiv(3000 * lum[k], One)

\* C6: Monochrome grain: one noise sample per pixel, and the same value
\* noise * (0.7 + 0.3 * lum[i]) is added to R, G and B before clamping.
C6_MonochromeGrain ==
    AfterCombine =>
      /\ Len(noise) = NumPixels
      /\ \A k \in PixelIdx : \A c \in Channels :
           /\ pre[k][c] - base[k][c] = RDiv(noise[k] * GrainWeight(k), One)
           /\ pre[k][c] - base[k][c] = pre[k][1] - base[k][1]

C6_Witness ==
    /\ AfterCombine
    /\ params.grainStrength > 0
    /\ \E k1 \in PixelIdx : \E k2 \in PixelIdx :
         /\ noise[k1] > 0 /\ noise[k2] < 0
         /\ pre[k1][2] - base[k1][2] > 0
         /\ pre[k2][2] - base[k2][2] < 0

Flat(image) ==
    \A k \in 1..(image.w * image.h) : \A c \in Channels :
      image.data[At(k, c)] = image.data[c]

\* C7: Flat input: for an image whose pixels are all equal and
\* grainStrength = 0, blur leaves the mask's R, G, B unchanged, blurSeparate
\* leaves the R, G, B of out unchanged, and every pixel of the result is the
\* graded value plus glowStrength (if lit) or 0 (if not), clamped.
C7_FlatInput ==
    (Done /\ Flat(img) /\ params.grainStrength = 0) =>
      \A k \in PixelIdx : \A c \in Channels :
        /\ glow[At(k, c)] = mask[At(k, c)]
        /\ soft[At(k, c)] = out[At(k, c)]
        /\ result.data[At(k, c)] = result.data[c]
        /\ result.data[At(k, c)] =
             Quantize(clamp(Graded(k)[c]
                            + (IF lum[k] > params.glowThreshold
                               THEN params.glowStrength ELSE 0)))

\* C8: Stage order with per-stage clamping: the value after glow and grain
\* is clamp01(clamp01(graded + glow/255 * glowStrength) + n * weight).
C8_StagedClamp ==
    AfterCombine =>
      \A k \in PixelIdx : \A c \in Channels :
        out[At(k, c)] =
          Quantize(clamp(clamp(base[k][c])
                         + RDiv(noise[k] * GrainWeight(k), One)))

====
